---- MODULE Spec2Model ----
(***************************************************************************)
(* The voice weather App component, in its two variants:                   *)
(*   "part000" - src/unnamed/part_000                                      *)
(*   "AppTsx"  - src/src/App.tsx                                           *)
(* View state (useState cells), the transcript of useSpeechRecognition,    *)
(* the lookups started by handleLocationSubmit that are still in flight,   *)
(* the browser's speech recognizer and the browser's speech synthesizer    *)
(* (utterance queue plus the utterance callbacks waiting in the event      *)
(* loop).                                                                  *)
(***************************************************************************)
EXTENDS Integers, Sequences, FiniteSets, TLC

VARIABLES
    variant,                            \* which App is mounted
    browserSupportsSpeechRecognition,   \* useSpeechRecognition() capability flag
    synthSupported,                     \* 'speechSynthesis' in window
    weatherData,                        \* useState<WeatherData | null>
    agricultureTips,                    \* useState<string | null> (part000 only)
    isListening,                        \* useState(false)
    error,                              \* useState<string | null>
    isSpeaking,                         \* useState(false)
    transcript,                         \* useSpeechRecognition().transcript
    recognizer,                         \* browser recognition session
    pipelines,                          \* handleLocationSubmit calls in flight, oldest first
    synthQueue,                         \* window.speechSynthesis utterance queue
    synthSpeaking,                      \* the head of synthQueue has begun to be spoken
    pendingEvents,                      \* utterance callbacks queued in the event loop
    lastEnd,                            \* history: how the pipeline that ended last ended
    lastWritten,                        \* history: argument of the last setWeatherData call
    overtaken,                          \* history: a younger pipeline wrote while the oldest is in flight
    lateWrite,                          \* history: the last write came from an overtaken pipeline
    startsSinceSpeak,                   \* history: onstart callbacks run since speakWeatherInfo last spoke
    playingAtSpeak,                     \* history: that call found a started weather utterance playing
    hideCancelled,                      \* history: the visibility handler cancelled while isSpeaking
    track                               \* which history variables this run records

vars == <<variant, browserSupportsSpeechRecognition, synthSupported, weatherData,
          agricultureTips, isListening, error, isSpeaking, transcript,
          recognizer, pipelines, synthQueue, synthSpeaking, pendingEvents,
          lastEnd, lastWritten, overtaken, lateWrite, startsSinceSpeak,
          playingAtSpeak, hideCancelled, track>>

\* The variables no action changes.
env == <<variant, browserSupportsSpeechRecognition, synthSupported, track>>
\* History variables of the lookups and of the synthesizer.
lookupHist == <<lastEnd, lastWritten, overtaken, lateWrite>>
speechHist == <<startsSinceSpeak, playingAtSpeak, hideCancelled>>

(* ------------------------------ bounds -------------------------------- *)
MaxInFlight == 2        \* lookups in flight at once
MaxQueue == 2           \* queued utterances plus lookups in flight (each may speak once)
MaxEvents == 1          \* undelivered callbacks when the user starts a lookup or replays

\* The user starts a lookup or replays only within the bounds.
WithinBounds(ps, q, ev) ==
    /\ Len(ps) <= MaxInFlight
    /\ Len(ps) + Len(q) <= MaxQueue
    /\ Len(ev) <= MaxEvents

(* ----------------------------- constants ------------------------------ *)
Null == "null"                          \* null of a string cell
\* null of the weatherData cell (no reading)
NoReading == [location |-> "", weatherDesc |-> ""]
Variants == {"part000", "AppTsx"}
Names == {"a", "b"}                     \* recognized place names (non-empty transcripts)

\* The fixed messages of setError. The 'location not found' text differs
\* between the two files.
NotFoundMsg(v) == IF v = "part000" THEN "notFound000" ELSE "notFoundTsx"
UnsupportedInMsg == "unsupportedInput"
UnsupportedOutMsg == "unsupportedOutput"
VoiceProblemMsg == "voiceOutputProblem"
DefaultTips == "noSpecialAdvice"

(* --------------------- collaborators outside src/ --------------------- *)
\* Weather description categories the weather API may report.
Descs == {"rain", "haze"}

\* getWeatherData(coordinates, location): the reading carries the place name
\* it was asked for.
getWeatherData(location, d) == [location |-> location, weatherDesc |-> d]

\* getAgricultureSuggestions(data): the advisory rule table, a function of
\* the reading; "" when no rule applies.
getAgricultureSuggestions(data) == IF data.weatherDesc = "rain" THEN "rainAdvice" ELSE ""

(* ---------------------- description translation ----------------------- *)
\* The table weatherDescriptionsTelugu: its nine keys and their Telugu
\* strings (written here as "te:" and the key).
weatherDescriptionsTelugu ==
    [k \in {"clear sky", "few clouds", "scattered clouds", "broken clouds",
            "shower rain", "rain", "thunderstorm", "snow", "mist"} |-> "te:" \o k]

\* Description strings a reading may carry: the nine keys, spellings of keys
\* with capitals, descriptions that are no key, and names that every object
\* literal inherits from Object.prototype.
AllDescs ==
    DOMAIN weatherDescriptionsTelugu
        \cup {"Rain", "CLEAR SKY", "Mist"}
        \cup {"haze", "Haze", "overcast clouds", ""}
        \cup {"constructor", "Constructor", "__proto__"}

\* String.prototype.toLowerCase on the strings of AllDescs.
toLowerCase(str) ==
    CASE str = "Rain" -> "rain"
      [] str = "CLEAR SKY" -> "clear sky"
      [] str = "Mist" -> "mist"
      [] str = "Haze" -> "haze"
      [] str = "Constructor" -> "constructor"
      [] OTHER -> str

\* The all-lower-case property names an object literal inherits.
InheritedKeys == {"constructor", "__proto__"}
Undefined == "undefined"

\* weatherDescriptionsTelugu[key]: the own property, else the property
\* inherited from Object.prototype (a function or an object, never the
\* description), else undefined.
TableLookup(key) ==
    IF key \in DOMAIN weatherDescriptionsTelugu THEN weatherDescriptionsTelugu[key]
    ELSE IF key \in InheritedKeys THEN "Object.prototype." \o key
    ELSE Undefined

\* a || b on these values: undefined and the empty string are falsy.
OrElse(a, b) == IF a = Undefined \/ a = "" THEN b ELSE a

\* weatherDescriptionsTelugu[data.weatherDesc.toLowerCase()] || data.weatherDesc,
\* the description spoken by speakWeatherInfo and shown by the render.
weatherDescriptionInTelugu(data) ==
    OrElse(TableLookup(toLowerCase(data.weatherDesc)), data.weatherDesc)

\* The descriptions the weather API reports in this run.
DescsSeen == IF "descs" \in track THEN AllDescs ELSE Descs

(* --------------------------- speech synthesis ------------------------- *)
\* An utterance is "weather" (onstart/onend/onerror attached) or "error"
\* (speakErrorMessage attaches no callback).
HasCallbacks(u) == u = "weather"

\* The synthesizer side of the view: what speak/cancel and the speak*
\* functions read and write.
View == [error |-> error, isSpeaking |-> isSpeaking, synthQueue |-> synthQueue,
         synthSpeaking |-> synthSpeaking, pendingEvents |-> pendingEvents]

\* window.speechSynthesis.cancel(): every utterance leaves the queue; each
\* one that has callbacks gets an error event ("interrupted" or "canceled"),
\* delivered once the calling script has returned.
cancel(v) ==
    LET n == Len(SelectSeq(v.synthQueue, HasCallbacks))
    IN [v EXCEPT !.synthQueue = <<>>, !.synthSpeaking = FALSE,
                 !.pendingEvents = @ \o [i \in 1..n |-> "error"]]

\* window.speechSynthesis.speak(u): u joins the queue.
speak(v, u) == [v EXCEPT !.synthQueue = Append(@, u)]

setError(v, msg) == [v EXCEPT !.error = msg]
setIsSpeaking(v, b) == [v EXCEPT !.isSpeaking = b]

\* part_000 speakWeatherInfo(data, tips): cancel, then speak.
speakWeatherInfoNoCancel000(v) ==
    IF synthSupported THEN speak(v, "weather") ELSE setError(v, UnsupportedOutMsg)
speakWeatherInfo000(v) ==
    IF synthSupported THEN speak(cancel(v), "weather") ELSE setError(v, UnsupportedOutMsg)

\* part_000 speakErrorMessage(): speak without cancel, no callbacks.
speakErrorMessage(v) == IF synthSupported THEN speak(v, "error") ELSE v

\* App.tsx speakWeatherInfo(data). seen is the isSpeaking captured by the
\* closure that is called, data the reading (or NoReading), ctor whether the
\* SpeechSynthesisUtterance constructor exists when speechSynthesis does not.
speakWeatherInfoTsx(v, seen, data, ctor) ==
    IF seen THEN setIsSpeaking(cancel(v), FALSE)
    ELSE IF data = NoReading THEN setError(v, VoiceProblemMsg)
    ELSE IF synthSupported THEN speak(v, "weather")
    ELSE IF ctor THEN setError(v, UnsupportedOutMsg)
    ELSE setError(v, VoiceProblemMsg)

\* Write a synthesizer-side view back to the variables.
Apply(w) ==
    /\ error' = w.error
    /\ isSpeaking' = w.isSpeaking
    /\ synthQueue' = w.synthQueue
    /\ synthSpeaking' = w.synthSpeaking
    /\ pendingEvents' = w.pendingEvents

(* ------------------------------- Init --------------------------------- *)
\* The state after the first render; T: the history groups recorded
\* ("lookup": lastEnd, overtaken, lateWrite; "starts": startsSinceSpeak,
\* playingAtSpeak; "hide": hideCancelled).
InitWith(T) ==
    /\ track = T
    /\ variant \in Variants
    /\ browserSupportsSpeechRecognition \in BOOLEAN
    /\ synthSupported \in BOOLEAN
    /\ weatherData = NoReading
    /\ agricultureTips = Null
    /\ isListening = FALSE
    /\ error = Null
    /\ isSpeaking = FALSE
    /\ transcript = ""
    /\ recognizer = "off"
    /\ pipelines = <<>>
    /\ synthQueue = <<>>
    /\ synthSpeaking = FALSE
    /\ pendingEvents = <<>>
    /\ lastEnd = "none"
    /\ lastWritten = NoReading
    /\ overtaken = FALSE
    /\ lateWrite = FALSE
    /\ startsSinceSpeak = 0
    /\ playingAtSpeak = FALSE
    /\ hideCancelled = "no"

Init == InitWith({})

(* ------------------------- speech recognition ------------------------- *)
\* The controller side of the view: what the transcript effect and
\* handleLocationSubmit's synchronous prefix read and write.
Ctl == [isListening |-> isListening, recognizer |-> recognizer, error |-> error,
        agricultureTips |-> agricultureTips, pipelines |-> pipelines]

\* stopListening(): setIsListening(false); SpeechRecognition.stopListening().
\* A running session is asked to stop and may still deliver a result.
stopListening(s) ==
    [s EXCEPT !.isListening = FALSE,
              !.recognizer = IF @ = "on" THEN "stopping" ELSE @]

\* handleLocationSubmit(location) up to its first await: setError(null),
\* (part_000) setAgricultureTips(null), then getCoordinates is in flight.
NewPipeline(location) == [location |-> location, pc |-> "awaitCoords"]
handleLocationSubmitKeepError(s, location) ==
    [s EXCEPT !.agricultureTips = IF variant = "part000" THEN Null ELSE @,
              !.pipelines = Append(@, NewPipeline(location))]
handleLocationSubmit(s, location) ==
    [s EXCEPT !.error = Null,
              !.agricultureTips = IF variant = "part000" THEN Null ELSE @,
              !.pipelines = Append(@, NewPipeline(location))]

\* `if (transcript)` of the transcript effect.
TranscriptTruthyAlways(t) == TRUE
TranscriptTruthy(t) == t # ""

\* The effect body: part_000 calls stopListening() first, App.tsx does not.
EffectBody(s, t) ==
    IF TranscriptTruthy(t)
    THEN handleLocationSubmit(IF variant = "part000" THEN stopListening(s) ELSE s, t)
    ELSE s

\* useEffect(..., [transcript]): the body runs when the dependency changed.
TranscriptEffect(s, old, t) == IF old # t THEN EffectBody(s, t) ELSE s

ApplyCtl(s) ==
    /\ isListening' = s.isListening
    /\ recognizer' = s.recognizer
    /\ error' = s.error
    /\ agricultureTips' = s.agricultureTips
    /\ pipelines' = s.pipelines

\* startListening(): the unsupported browser gets the error message only;
\* otherwise setIsListening(true), resetTranscript(), start a non-continuous
\* te-IN session.
startListening(s) ==
    IF ~browserSupportsSpeechRecognition
    THEN [s EXCEPT !.error = UnsupportedInMsg]
    ELSE TranscriptEffect([s EXCEPT !.isListening = TRUE, !.recognizer = "on"],
                          transcript, "")

\* The mic button: onClick={isListening ? stopListening : startListening}.
MicPress ==
    /\ LET s == IF isListening THEN stopListening(Ctl) ELSE startListening(Ctl)
       IN /\ s.pipelines # pipelines => WithinBounds(s.pipelines, synthQueue, pendingEvents)
          /\ ApplyCtl(s)
    /\ transcript' = IF ~isListening /\ browserSupportsSpeechRecognition
                     THEN "" ELSE transcript
    /\ UNCHANGED <<env, weatherData, isSpeaking, synthQueue, synthSpeaking,
                   pendingEvents, lookupHist, speechHist>>

\* The recognizer delivers a transcript t; final ends the non-continuous
\* session. The hook re-renders and the transcript effect runs.
TranscriptArrives(t, final) ==
    /\ recognizer \in {"on", "stopping"}
    /\ LET s0 == [Ctl EXCEPT !.recognizer = IF final THEN "off" ELSE @]
           s == TranscriptEffect(s0, transcript, t)
       IN /\ s.pipelines # pipelines => WithinBounds(s.pipelines, synthQueue, pendingEvents)
          /\ ApplyCtl(s)
    /\ transcript' = t
    /\ UNCHANGED <<env, weatherData, isSpeaking, synthQueue, synthSpeaking,
                   pendingEvents, lookupHist, speechHist>>

\* The session ends without a (further) transcript: nothing was recognized,
\* or a requested stop completed. No callback of the App observes it.
RecognitionEnds ==
    /\ recognizer \in {"on", "stopping"}
    /\ recognizer' = "off"
    /\ UNCHANGED <<env, weatherData, agricultureTips, isListening, error,
                   isSpeaking, transcript, pipelines, synthQueue, synthSpeaking,
                   pendingEvents, lookupHist, speechHist>>

(* --------------------------- lookup pipeline -------------------------- *)
\* A weather utterance is playing: the head of the queue has begun.
Playing(v) == v.synthSpeaking /\ Head(v.synthQueue) = "weather"

\* The pipelines in flight once the p-th has ended.
Remove(ps, p) == SubSeq(ps, 1, p - 1) \o SubSeq(ps, p + 1, Len(ps))

\* setWeatherData(data), called by the p-th oldest pipeline in flight.
setWeatherDataIfNewest(cur, data, p) == IF p = Len(pipelines) THEN data ELSE cur
setWeatherData(cur, data, p) == data

\* The catch block of handleLocationSubmit: the fixed 'location not found'
\* message; part_000 also speaks it.
catchBlockNoMessage(v) ==
    IF variant = "part000" THEN speakErrorMessage(v) ELSE v
catchBlock(v) ==
    IF variant = "part000"
    THEN speakErrorMessage(setError(v, NotFoundMsg(variant)))
    ELSE setError(v, NotFoundMsg(variant))

\* const suggestions = getAgricultureSuggestions(data) || default (part_000).
SuggestionsNoDefault(data) == getAgricultureSuggestions(data)
Suggestions(data) ==
    IF getAgricultureSuggestions(data) = "" THEN DefaultTips
    ELSE getAgricultureSuggestions(data)

\* Pipeline p ends in the catch block.
FailUncaught(p) ==
    /\ pipelines' = Remove(pipelines, p)
    /\ UNCHANGED <<env, weatherData, agricultureTips, isListening, error,
                   isSpeaking, transcript, recognizer, synthQueue, synthSpeaking,
                   pendingEvents, lookupHist, speechHist>>
Fail(p) ==
    /\ Apply(catchBlock(View))
    /\ pipelines' = Remove(pipelines, p)
    /\ lastEnd' = IF "lookup" \in track THEN "error" ELSE lastEnd
    /\ overtaken' = IF "lookup" \in track /\ p = 1 THEN FALSE ELSE overtaken
    /\ UNCHANGED <<env, weatherData, agricultureTips, isListening, transcript,
                   recognizer, lastWritten, lateWrite, speechHist>>

\* History of a pipeline that reached setWeatherData(data).
NoteWrite(p, data) ==
    /\ lastWritten' = data
    /\ IF "lookup" \in track
       THEN /\ lateWrite' = (p = 1 /\ overtaken)
            /\ overtaken' = (p # 1)
            /\ lastEnd' = IF data = NoReading THEN "nodata" ELSE "shown"
       ELSE UNCHANGED <<lateWrite, overtaken, lastEnd>>

\* History of a speakWeatherInfo call; spoke: it reached speak().
NoteSpeak(spoke) ==
    /\ startsSinceSpeak' = IF spoke /\ "starts" \in track THEN 0 ELSE startsSinceSpeak
    /\ playingAtSpeak' = IF spoke /\ "starts" \in track THEN Playing(View)
                         ELSE playingAtSpeak

\* await getCoordinates(location) resolves.
CoordinatesResolve(p) ==
    /\ p \in 1..Len(pipelines) /\ pipelines[p].pc = "awaitCoords"
    /\ pipelines' = [pipelines EXCEPT ![p].pc = "awaitWeather"]
    /\ UNCHANGED <<env, weatherData, agricultureTips, isListening, error,
                   isSpeaking, transcript, recognizer, synthQueue, synthSpeaking,
                   pendingEvents, lookupHist, speechHist>>

\* await getCoordinates(location) rejects.
CoordinatesReject(p) ==
    /\ p \in 1..Len(pipelines) /\ pipelines[p].pc = "awaitCoords"
    /\ Fail(p)

\* await getWeatherData(coordinates, location) rejects.
WeatherReject(p) ==
    /\ p \in 1..Len(pipelines) /\ pipelines[p].pc = "awaitWeather"
    /\ Fail(p)

\* part_000 after a reading arrived: setWeatherData, setAgricultureTips,
\* speakWeatherInfo(data, suggestions).
Success000(p, data) ==
    /\ weatherData' = setWeatherData(weatherData, data, p)
    /\ agricultureTips' = Suggestions(data)
    /\ Apply(speakWeatherInfo000(View))
    /\ pipelines' = Remove(pipelines, p)
    /\ NoteWrite(p, data)
    /\ NoteSpeak(synthSupported)
    /\ UNCHANGED <<env, isListening, transcript, recognizer, hideCancelled>>

\* App.tsx after getWeatherData resolved: setWeatherData(data) and
\* speakWeatherInfo(data) with no check of data. handleLocationSubmit is
\* memoized with [] and so calls the speakWeatherInfo of the first render,
\* whose isSpeaking is false.
SuccessTsx(p, data, ctor) ==
    /\ weatherData' = setWeatherData(weatherData, data, p)
    /\ Apply(speakWeatherInfoTsx(View, FALSE, data, ctor))
    /\ pipelines' = Remove(pipelines, p)
    /\ NoteWrite(p, data)
    /\ NoteSpeak(data # NoReading /\ synthSupported)
    /\ UNCHANGED <<env, agricultureTips, isListening, transcript, recognizer,
                   hideCancelled>>

\* await getWeatherData(coordinates, location) resolves, with a reading of
\* description d or with no data.
WeatherResolve(p, d, ctor) ==
    /\ p \in 1..Len(pipelines) /\ pipelines[p].pc = "awaitWeather"
    /\ LET data == IF d = Null THEN NoReading
                   ELSE getWeatherData(pipelines[p].location, d)
       IN IF variant = "part000"
          THEN IF data = NoReading THEN Fail(p) ELSE Success000(p, data)
          ELSE SuccessTsx(p, data, ctor)

(* ------------------------------ controls ------------------------------ *)
\* The replay button, rendered while weatherData is set.
Replay(ctor) ==
    /\ weatherData # NoReading
    /\ LET w == IF variant = "part000" THEN speakWeatherInfo000(View)
                ELSE speakWeatherInfoTsx(View, isSpeaking, weatherData, ctor)
       IN /\ WithinBounds(pipelines, w.synthQueue, w.pendingEvents)
          /\ Apply(w)
    /\ NoteSpeak(synthSupported /\ (variant = "part000" \/ ~isSpeaking))
    /\ UNCHANGED <<env, weatherData, agricultureTips, isListening, transcript,
                   recognizer, pipelines, lookupHist, hideCancelled>>

\* part_000 handleVisibilityChange, with document.hidden = h. Without
\* speechSynthesis the cancel() call throws before setIsSpeaking.
handleVisibilityChangeKeepFlag(v, h) ==
    IF h /\ synthSupported THEN cancel(v) ELSE v
handleVisibilityChange(v, h) ==
    IF h /\ synthSupported THEN setIsSpeaking(cancel(v), FALSE) ELSE v

\* A visibilitychange event with document.hidden = h.
VisibilityChange(h) ==
    /\ variant = "part000"
    /\ Apply(handleVisibilityChange(View, h))
    /\ hideCancelled' = IF h /\ synthSupported /\ isSpeaking /\ "hide" \in track
                        THEN "pending" ELSE hideCancelled
    /\ UNCHANGED <<env, weatherData, agricultureTips, isListening, transcript,
                   recognizer, pipelines, lookupHist, startsSinceSpeak,
                   playingAtSpeak>>

(* ---------------------------- synthesizer ----------------------------- *)
\* utterance.onstart / onend / onerror.
onstart(v) == setIsSpeaking(v, TRUE)
onend(v) == setIsSpeaking(v, FALSE)
onerror(v) == setIsSpeaking(v, FALSE)

\* The engine's own transitions reach the page as events, dispatched after
\* the callbacks already queued: the page sees an utterance begin, complete
\* or fail when that event runs.

\* The utterance at the head of the queue begins: its start event.
UtteranceStart ==
    /\ synthQueue # <<>> /\ ~synthSpeaking
    /\ pendingEvents = <<>>
    /\ LET v == [View EXCEPT !.synthSpeaking = TRUE]
       IN Apply(IF HasCallbacks(Head(synthQueue)) THEN onstart(v) ELSE v)
    /\ startsSinceSpeak' = IF HasCallbacks(Head(synthQueue)) /\ "starts" \in track
                           THEN startsSinceSpeak + 1 ELSE startsSinceSpeak
    /\ hideCancelled' = IF HasCallbacks(Head(synthQueue)) THEN "no" ELSE hideCancelled
    /\ UNCHANGED <<env, weatherData, agricultureTips, isListening, transcript,
                   recognizer, pipelines, lookupHist, playingAtSpeak>>

\* The utterance being spoken completes: its end event.
UtteranceEnd ==
    /\ synthQueue # <<>> /\ synthSpeaking
    /\ pendingEvents = <<>>
    /\ LET v == [View EXCEPT !.synthSpeaking = FALSE, !.synthQueue = Tail(@)]
       IN Apply(IF HasCallbacks(Head(synthQueue)) THEN onend(v) ELSE v)
    /\ UNCHANGED <<env, weatherData, agricultureTips, isListening, transcript,
                   recognizer, pipelines, lookupHist, speechHist>>

\* Synthesis of the head utterance fails, before or after it began: its
\* error event.
UtteranceError ==
    /\ synthQueue # <<>>
    /\ pendingEvents = <<>>
    /\ LET v == [View EXCEPT !.synthSpeaking = FALSE, !.synthQueue = Tail(@)]
       IN Apply(IF HasCallbacks(Head(synthQueue)) THEN onerror(v) ELSE v)
    /\ UNCHANGED <<env, weatherData, agricultureTips, isListening, transcript,
                   recognizer, pipelines, lookupHist, speechHist>>

\* The event loop runs the oldest error callback that a cancel() queued.
DeliverEvent ==
    /\ pendingEvents # <<>>
    /\ Apply(onerror([View EXCEPT !.pendingEvents = Tail(@)]))
    /\ hideCancelled' = IF hideCancelled = "pending" THEN "delivered"
                        ELSE hideCancelled
    /\ UNCHANGED <<env, weatherData, agricultureTips, isListening, transcript,
                   recognizer, pipelines, lookupHist, startsSinceSpeak,
                   playingAtSpeak>>

(* ------------------------------- Next --------------------------------- *)
Next ==
    \/ MicPress
    \/ \E t \in Names, final \in BOOLEAN : TranscriptArrives(t, final)
    \/ RecognitionEnds
    \/ \E p \in 1..MaxInFlight : CoordinatesResolve(p)
    \/ \E p \in 1..MaxInFlight : CoordinatesReject(p)
    \/ \E p \in 1..MaxInFlight : WeatherReject(p)
    \/ \E p \in 1..MaxInFlight, d \in DescsSeen \cup {Null}, ctor \in BOOLEAN :
          WeatherResolve(p, d, ctor)
    \/ \E ctor \in BOOLEAN : Replay(ctor)
    \/ \E h \in BOOLEAN : VisibilityChange(h)
    \/ UtteranceStart
    \/ UtteranceEnd
    \/ UtteranceError
    \/ DeliverEvent

Spec == Init /\ [][Next]_vars
\* The same program, recording one group of history variables.
SpecLookup == InitWith({"lookup"}) /\ [][Next]_vars
SpecStarts == InitWith({"starts"}) /\ [][Next]_vars
SpecHide == InitWith({"hide"}) /\ [][Next]_vars
\* The same program, with readings of every description of AllDescs.
SpecDescs == InitWith({"descs"}) /\ [][Next]_vars

\* What happens without the user: each network call of a pipeline in flight
\* resolves or rejects, a non-continuous recognition session ends (with a
\* final transcript or with none), the event loop runs queued callbacks and
\* the synthesizer speaks what it holds. Mic presses, replays and visibility
\* changes are the user's and may never come.
PipelineStep(p) ==
    \/ CoordinatesResolve(p)
    \/ CoordinatesReject(p)
    \/ WeatherReject(p)
    \/ \E d \in DescsSeen \cup {Null}, ctor \in BOOLEAN : WeatherResolve(p, d, ctor)
SessionEnds == RecognitionEnds \/ \E t \in Names : TranscriptArrives(t, TRUE)
Fairness ==
    /\ \A p \in 1..MaxInFlight : WF_vars(PipelineStep(p))
    /\ WF_vars(SessionEnds)
    /\ WF_vars(DeliverEvent)
    /\ WF_vars(UtteranceStart)
    /\ WF_vars(UtteranceEnd \/ UtteranceError)
SpecLive == Init /\ [][Next]_vars /\ Fairness

(* ------------------------------ claims -------------------------------- *)
\* The step in which the p-th pipeline in flight ends.
Ends(p) == p \in 1..Len(pipelines) /\ pipelines' = Remove(pipelines, p)
\* ... because getCoordinates rejected.
GeocodeRejected(p) == Ends(p) /\ pipelines[p].pc = "awaitCoords"
\* C1: whenever a pipeline ends because getCoordinates rejected, the error
\* message is the 'location not found' text and weatherData is null.
C1_GeocodeFailureLeavesNoReading ==
    [][\A p \in 1..MaxInFlight :
          GeocodeRejected(p) =>
             error' = NotFoundMsg(variant) /\ weatherData' = NoReading]_vars

\* The step in which a transcript change starts a pipeline.
Submitted == Len(pipelines') = Len(pipelines) + 1
\* The step in which the p-th pipeline gets a reading of description d.
Shown(p, d) == \E ctor \in BOOLEAN : WeatherResolve(p, d, ctor)
\* The reading the p-th pipeline gets when the weather API reports d.
ReadingOf(p, d) == getWeatherData(pipelines[p].location, d)

\* C2 as stated: whenever a pipeline ends with a reading, weatherData is
\* that reading, its location is the submitted name and no error message
\* is set.
C2_SuccessShowsReadingAndNoError ==
    [][\A p \in 1..MaxInFlight, d \in Descs :
          Shown(p, d) =>
             /\ weatherData' = ReadingOf(p, d)
             /\ weatherData'.location = pipelines[p].location
             /\ error' = Null]_vars

\* C2 amended: whenever a pipeline ends with a reading, weatherData is
\* that reading and its location is the submitted name; the submission
\* cleared the error message and, where speech synthesis exists, the
\* successful end leaves the error message as it finds it.
C2_SuccessShowsReading ==
    [][/\ \A p \in 1..MaxInFlight, d \in Descs :
             Shown(p, d) =>
                /\ weatherData' = ReadingOf(p, d)
                /\ weatherData'.location = pipelines[p].location
                /\ synthSupported => error' = error
       /\ Submitted => error' = Null]_vars

\* A lookup has just ended with its reading shown while the 'location not
\* found' message of an overlapping lookup is set.
C2_Witness ==
    /\ lastEnd = "shown"
    /\ weatherData # NoReading
    /\ weatherData = lastWritten
    /\ error = NotFoundMsg(variant)

\* C3: the synthesizer never holds more than one utterance.
C3_AtMostOneUtterance == Len(synthQueue) <= 1

\* A call of part_000's speakWeatherInfo that reaches speak().
Speaks000 ==
    /\ variant = "part000" /\ synthSupported
    /\ \/ \E ctor \in BOOLEAN : Replay(ctor)
       \/ \E p \in 1..MaxInFlight, d \in Descs : Shown(p, d)

\* C4: in part_000, a speakWeatherInfo call made while a weather utterance
\* is playing cancels it (its error callback is queued, it leaves the
\* synthesizer) before the new utterance is handed over; after that call at
\* most one start callback runs, and exactly one has run when the new
\* utterance completes.
C4_CancelThenSpeakOnce ==
    [][/\ (Speaks000 /\ Playing(View)) =>
             /\ synthQueue' = <<"weather">>
             /\ ~synthSpeaking'
             /\ pendingEvents' = Append(pendingEvents, "error")
       /\ (variant = "part000" /\ playingAtSpeak') => startsSinceSpeak' <= 1
       /\ (variant = "part000" /\ playingAtSpeak /\ UtteranceEnd
             /\ Head(synthQueue) = "weather") => startsSinceSpeak = 1]_vars

\* The utterance handed over while another was playing has started, once,
\* and the cancelled one's callback has run.
C4_Witness ==
    /\ variant = "part000"
    /\ playingAtSpeak
    /\ startsSinceSpeak = 1
    /\ isSpeaking
    /\ pendingEvents = <<>>

\* C5: in part_000, when the document becomes hidden while isSpeaking, the
\* handler empties the synthesizer and sets isSpeaking to false; from then
\* on isSpeaking is false until an utterance's start callback runs, which is
\* the only step that ever turns it on.
C5_HiddenStopsSpeaking ==
    [][variant = "part000" =>
          /\ (VisibilityChange(TRUE) /\ synthSupported /\ isSpeaking) =>
                ~isSpeaking' /\ synthQueue' = <<>> /\ ~synthSpeaking'
          /\ (~isSpeaking /\ isSpeaking') =>
                /\ ~synthSpeaking /\ synthSpeaking'
                /\ synthQueue' = synthQueue
                /\ Head(synthQueue) = "weather"
          /\ hideCancelled' # "no" => ~isSpeaking']_vars

\* The handler cancelled while speaking and the cancelled utterance's error
\* callback has since run.
C5_Witness ==
    /\ variant = "part000"
    /\ hideCancelled = "delivered"
    /\ ~isSpeaking
    /\ pendingEvents = <<>>

\* C6: isListening and isSpeaking are never both true.
C6_NeverListeningAndSpeaking == ~(isListening /\ isSpeaking)

\* C7: a change of the transcript to a non-empty value starts exactly one
\* pipeline, with that value; a change to the empty value starts none; and
\* nothing else starts a pipeline.
C7_OnePipelinePerTranscript ==
    [][/\ (transcript' # transcript /\ transcript' # "") =>
             pipelines' = Append(pipelines, NewPipeline(transcript'))
       /\ (transcript' # transcript /\ transcript' = "") => pipelines' = pipelines
       /\ transcript' = transcript => Len(pipelines') <= Len(pipelines)]_vars

\* One transcript has started its pipeline and startListening has since
\* reset the transcript without starting another.
C7_Witness ==
    /\ transcript = ""
    /\ isListening
    /\ Len(pipelines) = 1

\* C8: a transcript that arrives while a lookup is in flight starts a
\* second pipeline next to it, and weatherData is always the argument of the
\* setWeatherData call that ran last, whichever pipeline made it.
C8_LastWriteWins ==
    [][/\ weatherData' = lastWritten'
       /\ (Submitted /\ pipelines # <<>>) =>
             pipelines' = Append(pipelines, NewPipeline(transcript'))]_vars

\* Both lookups have ended and the one submitted first wrote last.
C8_Witness ==
    /\ lateWrite
    /\ pipelines = <<>>
    /\ weatherData # NoReading
    /\ weatherData = lastWritten

\* C9: a non-empty transcript that arrives while isListening turns
\* isListening off and stops the recognizer; so does a mic press while
\* isListening.
C9_TranscriptStopsListening ==
    [][/\ (isListening /\ transcript' # transcript /\ transcript' # "") =>
             ~isListening' /\ recognizer' # "on"
       /\ (isListening /\ MicPress) =>
             ~isListening' /\ recognizer' # "on"]_vars

\* The step in which the p-th pipeline ends in the catch block of part_000.
Fails000(p) ==
    /\ variant = "part000"
    /\ \/ CoordinatesReject(p)
       \/ WeatherReject(p)
       \/ \E ctor \in BOOLEAN : WeatherResolve(p, Null, ctor)

\* C10: in part_000 a failing pipeline sets the 'location not found'
\* message, hands exactly one error utterance to the synthesizer when there
\* is one, and writes neither weatherData nor agricultureTips.
C10_FailureSpeaksErrorOnce ==
    [][\A p \in 1..MaxInFlight :
          Fails000(p) =>
             /\ error' = NotFoundMsg(variant)
             /\ synthQueue' = IF synthSupported THEN Append(synthQueue, "error")
                              ELSE synthQueue
             /\ weatherData' = weatherData
             /\ agricultureTips' = agricultureTips
             /\ lastWritten' = lastWritten]_vars

\* A lookup of part_000 has just failed and its error utterance is queued.
C10_Witness ==
    /\ variant = "part000"
    /\ lastEnd = "error"
    /\ error = NotFoundMsg(variant)
    /\ synthQueue # <<>>
    /\ synthQueue[Len(synthQueue)] = "error"

\* A call of speakWeatherInfo with a reading: the replay button or the end of
\* a successful lookup.
SpeaksReading ==
    \/ \E ctor \in BOOLEAN : Replay(ctor)
    \/ \E p \in 1..MaxInFlight, d \in Descs : Shown(p, d)

\* C11: startListening without speech recognition sets the unsupported-input
\* message, starts no recognizer and leaves isListening, isSpeaking,
\* weatherData and the transcript alone; speakWeatherInfo without
\* speechSynthesis sets the unsupported-output message, hands no utterance
\* over and leaves isSpeaking (and, on replay, weatherData) alone.
C11_MissingCapabilityIsUnsupportedError ==
    [][/\ (MicPress /\ ~isListening /\ ~browserSupportsSpeechRecognition) =>
             /\ error' = UnsupportedInMsg
             /\ UNCHANGED <<isListening, isSpeaking, weatherData, transcript,
                            recognizer, pipelines>>
       /\ (SpeaksReading /\ ~synthSupported) =>
             /\ error' = UnsupportedOutMsg
             /\ UNCHANGED <<isSpeaking, synthQueue, synthSpeaking>>
             /\ pipelines' = pipelines => weatherData' = weatherData]_vars

\* C12: the description shown and spoken for the reading held is the table's
\* string when the lower-cased description is one of the nine keys, and the
\* description itself, unchanged, for every other description.
C12_TranslationOrPassThrough ==
    weatherData # NoReading =>
        LET k == toLowerCase(weatherData.weatherDesc)
        IN weatherDescriptionInTelugu(weatherData) =
              IF k \in DOMAIN weatherDescriptionsTelugu
              THEN weatherDescriptionsTelugu[k]
              ELSE weatherData.weatherDesc

\* C13: in part_000, whenever no synthesis callback waits to be delivered,
\* isSpeaking is true exactly when the synthesizer is speaking an utterance,
\* whichever utterance it is.
C13_SpeakingFlagMatchesSynthesizer ==
    (variant = "part000" /\ pendingEvents = <<>>) => (isSpeaking <=> synthSpeaking)

\* C14: in App.tsx the replay button pressed while isSpeaking empties the
\* synthesizer, sets isSpeaking to false and hands no utterance over; pressed
\* while not isSpeaking (with speech synthesis) it hands over exactly one
\* utterance; and a lookup that completes while an utterance is playing
\* cancels that utterance instead of queueing behind it.
C14_ReplayTogglesAndCompletionCancels ==
    [][variant = "AppTsx" =>
          /\ ((\E ctor \in BOOLEAN : Replay(ctor)) /\ isSpeaking) =>
                synthQueue' = <<>> /\ ~synthSpeaking' /\ ~isSpeaking'
          /\ ((\E ctor \in BOOLEAN : Replay(ctor)) /\ ~isSpeaking /\ synthSupported) =>
                synthQueue' = Append(synthQueue, "weather")
          /\ \A p \in 1..MaxInFlight, d \in Descs :
                (Shown(p, d) /\ Playing(View)) =>
                    ~synthSpeaking' /\ Len(synthQueue') <= 1]_vars

\* C15: in part_000 a non-null agricultureTips is always the advisory of the
\* weatherData held; a submission clears agricultureTips and the error
\* message; and a successful lookup sets agricultureTips to a non-empty
\* string, the default text when the rule table yields nothing.
C15_TipsBelongToReading ==
    [][variant = "part000" =>
          /\ agricultureTips' # Null =>
                /\ weatherData' # NoReading
                /\ agricultureTips' = Suggestions(weatherData')
          /\ Submitted => agricultureTips' = Null /\ error' = Null
          /\ \A p \in 1..MaxInFlight, d \in Descs :
                Shown(p, d) =>
                   /\ agricultureTips' \notin {Null, ""}
                   /\ getAgricultureSuggestions(ReadingOf(p, d)) = "" =>
                         agricultureTips' = DefaultTips]_vars

\* Two lookups of part_000 overlapped, the one submitted first wrote last,
\* and its reading, for which the rule table has no advice, is shown with
\* the default text.
C15_Witness ==
    /\ variant = "part000"
    /\ lateWrite
    /\ weatherData # NoReading
    /\ getAgricultureSuggestions(weatherData) = ""
    /\ agricultureTips = DefaultTips

\* C16: once the recognition session has ended, with a transcript or without
\* one, an isListening that is still true eventually becomes false.
C16_ListeningEndsWithSession ==
    (isListening /\ recognizer = "off") ~> ~isListening

\* C17: when every network call resolves or rejects, every pipeline ends
\* (the pipelines in flight run out again and again, or the oldest one ends
\* again and again); the step that ends a pipeline has called setWeatherData
\* with its reading or has set an error message; and the mic button is
\* always enabled, the replay button whenever a reading is shown and the
\* synthesizer is idle.
C17_PipelinesEndHandled ==
    /\ []<>(pipelines = <<>>) \/ []<><<Ends(1)>>_vars
    /\ [][\A p \in 1..MaxInFlight :
             Ends(p) =>
                \/ \E d \in Descs : Shown(p, d) /\ weatherData' = ReadingOf(p, d)
                \/ error' \in {NotFoundMsg(variant), VoiceProblemMsg}]_vars
    /\ [](ENABLED MicPress)
    /\ []((weatherData # NoReading /\ pipelines = <<>> /\ synthQueue = <<>>
             /\ pendingEvents = <<>>) => ENABLED (\E ctor \in BOOLEAN : Replay(ctor)))

\* Lookups have ended both ways, the last one with the 'location not found'
\* message while an earlier reading is shown, and none is in flight.
C17_Witness ==
    /\ pipelines = <<>>
    /\ lastWritten # NoReading
    /\ weatherData = lastWritten
    /\ error = NotFoundMsg(variant)
====
